---- MODULE Spec2Model ----
(***************************************************************************)
(* KenKen solver (birkenfeld/kenken-rs): candidate generation for cages,   *)
(* the constraint store with its exclude primitive, the naked-single /     *)
(* naked-pair propagation pass, and the backtracking search of             *)
(* KenKen::solve.                                                          *)
(*                                                                         *)
(* Conventions.  Rows, columns and positions inside a cage are 0-based as  *)
(* in the source; TLA+ sequences are 1-based, so position ix of a cage is  *)
(* cells[ix + 1] and cage index idx (0-based) is cages[idx + 1].           *)
(* A u32 is represented by its two's-complement representative: a negative *)
(* integer x stands for the u32 value 2^32 + x (a "wrapped" value).        *)
(***************************************************************************)
EXTENDS Integers, Sequences, FiniteSets, TLC

VARIABLES
    ken,              \* the puzzle: [size, cages]           (main.rs:59-63)
    overflow_checks,  \* build profile: TRUE = arithmetic overflow panics
    pc,               \* position of solve()
    cellcands,        \* Constraints.cellcands: cell -> BitSet
    cagecands,        \* Constraints.cagecands: per cage, list of SmallVec
    work,             \* working grid of the search
    res,              \* result collection of the search
    rmask, cmask,     \* row / column occupancy masks of the search
    steps,            \* step counter of the search
    stack,            \* activation records of the recursive inner()
    outcome,          \* what solve() handed back
    calls             \* number of exclude calls made one by one (SpecStore)

vars == <<ken, overflow_checks, pc, cellcands, cagecands, work, res,
          rmask, cmask, steps, stack, outcome, calls>>

(***************************************************************************)
(* Bounds of the model.                                                    *)
(***************************************************************************)
\* goals of the cages of the 2x2 puzzles range over 0..MaxGoal
MaxGoal == 4
\* exclude calls made one by one, outside a reduce pass, in SpecStore
MaxCalls == 2

(***************************************************************************)
(* u32 arithmetic on representatives.                                      *)
(***************************************************************************)
Min(a, b) == IF a <= b THEN a ELSE b
Max(a, b) == IF a >= b THEN a ELSE b

\* unsigned a < b
U32Less(a, b) == IF (a < 0) = (b < 0) THEN a < b ELSE b < 0
U32Min(a, b) == IF U32Less(b, a) THEN b ELSE a
\* a - b leaves the u32 range
SubOverflows(a, b) == U32Less(a, b)
\* a + b leaves the u32 range
AddOverflows(a, b) ==
    \/ a < 0 /\ b < 0
    \/ a < 0 /\ b >= 0 /\ a + b >= 0
    \/ b < 0 /\ a >= 0 /\ a + b >= 0

RECURSIVE Pow16(_)
Pow16(k) == IF k = 0 THEN 1 ELSE 16 * Pow16(k - 1)

RECURSIVE Flatten(_)
Flatten(ss) == IF ss = <<>> THEN <<>> ELSE Head(ss) \o Flatten(Tail(ss))

(***************************************************************************)
(* helpers.rs: SmallVec, a vector of 4-bit elements packed in a u64; the   *)
(* top 4 bits hold the length.  Modelled as [len, bits] with bits the low  *)
(* 60 bits.                                                                *)
(***************************************************************************)
new_with(n) == [len |-> 1, bits |-> n]

\* n1 | n2 << 4 ; n1 < 16 at every use, so the or is a sum
new_with_two(n1, n2) == [len |-> 2, bits |-> n1 + 16 * n2]

get(v, ix) == (v.bits \div Pow16(ix)) % 16

push(v, n) == [len |-> v.len + 1,
               bits |-> (v.bits % Pow16(v.len)) + n * Pow16(v.len)]

(***************************************************************************)
(* helpers.rs: BitSet, modelled as the set of the bit numbers that are set.*)
(***************************************************************************)
new_empty == {}
new_full(size) == 1..size
test(s, bit) == bit \in s
count(s) == Cardinality(s)
\* trailing_zeros: the lowest bit set (32 for the empty set)
get_one(s) == IF s = {} THEN 32 ELSE CHOOSE b \in s : \A o \in s : b <= o
\* (32 - leading_zeros - 1, trailing_zeros): (highest, lowest)
get_two(s) == << (IF s = {} THEN -1 ELSE CHOOSE b \in s : \A o \in s : b >= o),
                 get_one(s) >>

(***************************************************************************)
(* main.rs: Cage.  lastcell is maintained by add_cell.                     *)
(***************************************************************************)
RECURSIVE add_cells(_, _)
add_cells(cells, last) ==
    IF cells = <<>> THEN last
    ELSE LET c == Head(cells)
         IN add_cells(Tail(cells),
                      IF c[1] > last[1] \/ (c[1] = last[1] /\ c[2] > last[2])
                      THEN c ELSE last)

Cage(cells, op, goal) ==
    [cells |-> cells, lastcell |-> add_cells(cells, <<0, 0>>),
     operation |-> [op |-> op, goal |-> goal]]

\* (cage index 1-based, position 0-based) of a cell
cell2cage(k, row, col) ==
    CHOOSE p \in (1..Len(k.cages)) \X (0..k.size * k.size - 1) :
        /\ p[2] < Len(k.cages[p[1]].cells)
        /\ k.cages[p[1]].cells[p[2] + 1] = <<row, col>>

Cells(k) == (0..k.size - 1) \X (0..k.size - 1)

(***************************************************************************)
(* constraints.rs: CageCandidates.  A generator yields                     *)
(* [ok |-> TRUE, v |-> list] or, when the evaluation panics, Panic.        *)
(***************************************************************************)
Panic == [ok |-> FALSE, v |-> <<>>]
Ok(list) == [ok |-> TRUE, v |-> list]

PushAll(cands, i) == [n \in 1..Len(cands) |-> push(cands[n], i)]

RECURSIVE for_add(_, _, _)
for_add(max, goal, len) ==
    IF len = 1 THEN
        Ok(IF ~U32Less(max, goal) THEN <<new_with(goal)>> ELSE <<>>)
    ELSE IF overflow_checks
            /\ (SubOverflows(goal, len) \/ AddOverflows(goal - len, 2)) THEN Panic
    ELSE LET hi == U32Min(max + 1, goal - len + 2)
             part == [i \in 1..(hi - 1) |-> for_add(max, goal - i, len - 1)]
         IN IF \E i \in 1..(hi - 1) : ~part[i].ok THEN Panic
            ELSE Ok(Flatten([i \in 1..(hi - 1) |-> PushAll(part[i].v, i)]))

RECURSIVE for_mul(_, _, _)
for_mul(max, goal, len) ==
    IF len = 1 THEN
        Ok(IF goal <= max THEN <<new_with(goal)>> ELSE <<>>)
    ELSE LET hi == Min(max + 1, goal + 1)
             part == [i \in 1..(hi - 1) |->
                        IF goal % i # 0 THEN Ok(<<>>)
                        ELSE for_mul(max, goal \div i, len - 1)]
         IN IF \E i \in 1..(hi - 1) : ~part[i].ok THEN Panic
            ELSE Ok(Flatten([i \in 1..(hi - 1) |-> PushAll(part[i].v, i)]))

\* 1..max-goal+1.  With goal = max + 1 the unchecked build wraps the bound
\* to 0 (an empty range); a larger goal wraps it to about 2^32, a vector of
\* 2^33 sequences, which no run of the program completes.
for_sub(max, goal) ==
    IF overflow_checks /\ SubOverflows(max, goal) THEN Panic
    ELSE LET hi == max - goal + 1
         IN IF hi < 0 THEN Panic
            ELSE Ok(Flatten([i \in 1..(hi - 1) |->
                        << new_with_two(i, i + goal), new_with_two(i + goal, i) >>]))

for_div(max, goal) ==
    IF goal = 0 THEN Panic
    ELSE LET hi == (max \div goal) + 1
         IN Ok(Flatten([i \in 1..(hi - 1) |->
                        << new_with_two(i, i * goal), new_with_two(i * goal, i) >>]))

\* the retain of one (i, j) pair; i, j are 0-based positions
retain_pair(list, cage, i, j) ==
    SelectSeq(list, LAMBDA cand :
        IF cage.cells[i + 1][1] = cage.cells[j + 1][1]
           \/ cage.cells[i + 1][2] = cage.cells[j + 1][2]
        THEN get(cand, i) # get(cand, j) ELSE TRUE)

RECURSIVE reduced_from(_, _, _, _)
reduced_from(list, cage, i, j) ==
    LET n == Len(cage.cells)
    IN IF i >= n THEN list
       ELSE IF j >= n THEN reduced_from(list, cage, i + 1, i + 2)
       ELSE reduced_from(retain_pair(list, cage, i, j), cage, i, j + 1)

reduced(list, cage) == reduced_from(list, cage, 0, 1)

from_cage(k, cage) ==
    LET size == k.size
        ncells == Len(cage.cells)
        goal == cage.operation.goal
        op == cage.operation.op
    IN CASE op = "Add" -> LET g == for_add(size, goal, ncells)
                          IN IF g.ok THEN Ok(reduced(g.v, cage)) ELSE Panic
         [] op = "Mul" -> LET g == for_mul(size, goal, ncells)
                          IN IF g.ok THEN Ok(reduced(g.v, cage)) ELSE Panic
         [] op = "Sub" -> for_sub(size, goal)
         [] op = "Div" -> for_div(size, goal)
         [] op = "Const" -> Ok(<<new_with(goal)>>)

candidates_for_cell(list, ix) == {get(list[n], ix) : n \in 1..Len(list)}

(***************************************************************************)
(* constraints.rs: Constraints.  A store value is [cell, cage]: cell maps  *)
(* <<row, col>> to a BitSet, cage is the list of candidate lists.          *)
(***************************************************************************)
empty(k) == [cell |-> [c \in Cells(k) |-> new_full(k.size)], cage |-> <<>>]

\* an exclude that filters the cage but leaves the digit in the cell
exclude_KeepsDigit(st, row, col, el) ==
    IF test(st.cell[<<row, col>>], el) THEN
        LET cc == cell2cage(ken, row, col)
            cells == ken.cages[cc[1]].cells
            rcands == SelectSeq(st.cage[cc[1]], LAMBDA cand : get(cand, cc[2]) # el)
            others == {o \in 0..Len(cells) - 1 : o # cc[2]}
        IN [cell |-> [p \in DOMAIN st.cell |->
                        IF \E o \in others : cells[o + 1] = p
                        THEN candidates_for_cell(rcands,
                                 CHOOSE o \in others : cells[o + 1] = p)
                        ELSE st.cell[p]],
            cage |-> [st.cage EXCEPT ![cc[1]] = rcands],
            ret |-> TRUE]
    ELSE [cell |-> st.cell, cage |-> st.cage, ret |-> FALSE]

\* an exclude that subtracts from the cell and does not recompute the others
exclude_NoSiblings(st, row, col, el) ==
    IF test(st.cell[<<row, col>>], el) THEN
        LET cc == cell2cage(ken, row, col)
        IN [cell |-> [st.cell EXCEPT ![<<row, col>>] = @ \ {el}],
            cage |-> [st.cage EXCEPT ![cc[1]] =
                        SelectSeq(@, LAMBDA cand : get(cand, cc[2]) # el)],
            ret |-> TRUE]
    ELSE [cell |-> st.cell, cage |-> st.cage, ret |-> FALSE]

\* a call that recomputes every sibling from the position of the cell itself
exclude_WrongPosition(st, row, col, el) ==
    IF test(st.cell[<<row, col>>], el) THEN
        LET cc == cell2cage(ken, row, col)
            cageidx == cc[1]
            cellidx == cc[2]
            cells == ken.cages[cageidx].cells
            cleared == [st.cell EXCEPT ![<<row, col>>] = @ \ {el}]
            rcands == SelectSeq(st.cage[cageidx],
                                LAMBDA cand : get(cand, cellidx) # el)
            others == {o \in 0..Len(cells) - 1 : o # cellidx}
        IN [cell |-> [p \in DOMAIN cleared |->
                        IF \E o \in others : cells[o + 1] = p
                        THEN candidates_for_cell(rcands, cellidx)
                        ELSE cleared[p]],
            cage |-> [st.cage EXCEPT ![cageidx] = rcands],
            ret |-> TRUE]
    ELSE [cell |-> st.cell, cage |-> st.cage, ret |-> FALSE]

\* [cell, cage, ret]: the store after the call and the value returned
exclude(st, row, col, el) ==
    IF test(st.cell[<<row, col>>], el) THEN
        LET cc == cell2cage(ken, row, col)
            cageidx == cc[1]
            cellidx == cc[2]
            cells == ken.cages[cageidx].cells
            cleared == [st.cell EXCEPT ![<<row, col>>] = @ \ {el}]
            rcands == SelectSeq(st.cage[cageidx],
                                LAMBDA cand : get(cand, cellidx) # el)
            others == {o \in 0..Len(cells) - 1 : o # cellidx}
        IN [cell |-> [p \in DOMAIN cleared |->
                        IF \E o \in others : cells[o + 1] = p
                        THEN candidates_for_cell(rcands,
                                 CHOOSE o \in others : cells[o + 1] = p)
                        ELSE cleared[p]],
            cage |-> [st.cage EXCEPT ![cageidx] = rcands],
            ret |-> TRUE]
    ELSE [cell |-> st.cell, cage |-> st.cage, ret |-> FALSE]

\* one cage of determine_initial: put its cells, push its candidates
initial_cage(st, cage, new) ==
    [cell |-> [p \in DOMAIN st.cell |->
                 IF \E ix \in 0..Len(cage.cells) - 1 : cage.cells[ix + 1] = p
                 THEN candidates_for_cell(new,
                          CHOOSE ix \in 0..Len(cage.cells) - 1 : cage.cells[ix + 1] = p)
                 ELSE st.cell[p]],
     cage |-> Append(st.cage, new)]

\* [ok, st]: ok is FALSE when a generator panicked
RECURSIVE determine_initial_from(_, _, _)
determine_initial_from(k, st, n) ==
    IF n > Len(k.cages) THEN [ok |-> TRUE, st |-> st]
    ELSE LET new == from_cage(k, k.cages[n])
         IN IF ~new.ok THEN [ok |-> FALSE, st |-> st]
            ELSE determine_initial_from(k, initial_cage(st, k.cages[n], new.v), n + 1)

determine_initial(k, st) == determine_initial_from(k, st, 1)

\* a flag that is set by every call, whatever the call returns
excl_AlwaysChanged(acc, row, col, el) ==
    LET r == exclude(acc, row, col, el)
    IN [cell |-> r.cell, cage |-> r.cage, changed |-> TRUE]

\* changed |= self.exclude(row, col, el), on [cell, cage, changed]
excl(acc, row, col, el) ==
    LET r == exclude(acc, row, col, el)
    IN [cell |-> r.cell, cage |-> r.cage, changed |-> acc.changed \/ r.ret]

\* a pass that excludes along the row only
RECURSIVE single_from_RowOnly(_, _, _, _, _)
single_from_RowOnly(acc, row, col, el, other) ==
    IF other >= ken.size THEN acc
    ELSE single_from_RowOnly(IF other # col THEN excl(acc, row, other, el) ELSE acc,
                             row, col, el, other + 1)

\* n == 1: for other in 0..size
RECURSIVE single_from(_, _, _, _, _)
single_from(acc, row, col, el, other) ==
    IF other >= ken.size THEN acc
    ELSE LET a1 == IF other # col THEN excl(acc, row, other, el) ELSE acc
             a2 == IF other # row THEN excl(a1, other, col, el) ELSE a1
         IN single_from(a2, row, col, el, other + 1)

\* a pass that spares the first cell of the pair only
RECURSIVE pair_row_others_HitsPartner(_, _, _, _, _, _, _)
pair_row_others_HitsPartner(acc, row, col, scol, el1, el2, ocol) ==
    IF ocol >= ken.size THEN acc
    ELSE pair_row_others_HitsPartner(
             IF ocol # col
             THEN excl(excl(acc, row, ocol, el1), row, ocol, el2) ELSE acc,
             row, col, scol, el1, el2, ocol + 1)

\* for ocol in 0..size, inside a matching scol
RECURSIVE pair_row_others(_, _, _, _, _, _, _)
pair_row_others(acc, row, col, scol, el1, el2, ocol) ==
    IF ocol >= ken.size THEN acc
    ELSE pair_row_others(
             IF ocol # col /\ ocol # scol
             THEN excl(excl(acc, row, ocol, el1), row, ocol, el2) ELSE acc,
             row, col, scol, el1, el2, ocol + 1)

\* for scol in col+1..size
RECURSIVE pair_row(_, _, _, _, _, _)
pair_row(acc, row, col, el1, el2, scol) ==
    IF scol >= ken.size THEN acc
    ELSE pair_row(
             IF acc.cell[<<row, col>>] = acc.cell[<<row, scol>>]
             THEN pair_row_others(acc, row, col, scol, el1, el2, 0) ELSE acc,
             row, col, el1, el2, scol + 1)

\* for orow in 0..size, inside a matching srow
RECURSIVE pair_col_others(_, _, _, _, _, _, _)
pair_col_others(acc, row, col, srow, el1, el2, orow) ==
    IF orow >= ken.size THEN acc
    ELSE pair_col_others(
             IF orow # row /\ orow # srow
             THEN excl(excl(acc, orow, col, el1), orow, col, el2) ELSE acc,
             row, col, srow, el1, el2, orow + 1)

\* for srow in row+1..size
RECURSIVE pair_col(_, _, _, _, _, _)
pair_col(acc, row, col, el1, el2, srow) ==
    IF srow >= ken.size THEN acc
    ELSE pair_col(
             IF acc.cell[<<row, col>>] = acc.cell[<<srow, col>>]
             THEN pair_col_others(acc, row, col, srow, el1, el2, 0) ELSE acc,
             row, col, el1, el2, srow + 1)

\* the body of the scan loops for one cell
scan_cell(acc, row, col) ==
    LET s == acc.cell[<<row, col>>]
        n == count(s)
    IN IF n = 1 THEN single_from(acc, row, col, get_one(s), 0)
       ELSE IF n = 2 THEN
           LET el == get_two(s)
           IN pair_col(pair_row(acc, row, col, el[1], el[2], col + 1),
                       row, col, el[1], el[2], row + 1)
       ELSE acc

\* a scan that stops one row early
RECURSIVE reduce_from_SkipsLastRow(_, _, _)
reduce_from_SkipsLastRow(acc, row, col) ==
    IF row >= ken.size - 1 THEN acc
    ELSE IF col >= ken.size THEN reduce_from_SkipsLastRow(acc, row + 1, 0)
    ELSE reduce_from_SkipsLastRow(scan_cell(acc, row, col), row, col + 1)

RECURSIVE reduce_from(_, _, _)
reduce_from(acc, row, col) ==
    IF row >= ken.size THEN acc
    ELSE IF col >= ken.size THEN reduce_from(acc, row + 1, 0)
    ELSE reduce_from(scan_cell(acc, row, col), row, col + 1)

\* [cell, cage, changed]
reduce(st) == reduce_from([cell |-> st.cell, cage |-> st.cage, changed |-> FALSE], 0, 0)

\* while reduce() { }
RECURSIVE reduce_loop(_)
reduce_loop(st) ==
    LET r == reduce(st)
    IN IF r.changed THEN reduce_loop(r) ELSE [cell |-> r.cell, cage |-> r.cage]

(***************************************************************************)
(* The scan of one cell with the column exclusions made before the row     *)
(* exclusions: the other order of the statements of the loop body of       *)
(* reduce.                                                                 *)
(***************************************************************************)
RECURSIVE single_from_cols_first(_, _, _, _, _)
single_from_cols_first(acc, row, col, el, other) ==
    IF other >= ken.size THEN acc
    ELSE LET a1 == IF other # row THEN excl(acc, other, col, el) ELSE acc
             a2 == IF other # col THEN excl(a1, row, other, el) ELSE a1
         IN single_from_cols_first(a2, row, col, el, other + 1)

scan_cell_cols_first(acc, row, col) ==
    LET s == acc.cell[<<row, col>>]
        n == count(s)
    IN IF n = 1 THEN single_from_cols_first(acc, row, col, get_one(s), 0)
       ELSE IF n = 2 THEN
           LET el == get_two(s)
           IN pair_row(pair_col(acc, row, col, el[1], el[2], row + 1),
                       row, col, el[1], el[2], col + 1)
       ELSE acc

(***************************************************************************)
(* main.rs: Cage::satisfied and KenKen::constraint_satisfied on a grid     *)
(* (a function from <<row, col>> to a digit, 0 = unassigned).              *)
(***************************************************************************)
RECURSIVE SumOver(_, _)
SumOver(cells, tbl) ==
    IF cells = <<>> THEN 0 ELSE tbl[Head(cells)] + SumOver(Tail(cells), tbl)

RECURSIVE ProductOver(_, _)
ProductOver(cells, tbl) ==
    IF cells = <<>> THEN 1 ELSE tbl[Head(cells)] * ProductOver(Tail(cells), tbl)

satisfied(cage, tbl) ==
    LET goal == cage.operation.goal
        op == cage.operation.op
        v1 == tbl[cage.cells[1]]
        v2 == tbl[cage.cells[2]]
    IN CASE op = "Const" -> v1 = goal
         [] op = "Add" -> SumOver(cage.cells, tbl) = goal
         [] op = "Mul" -> ProductOver(cage.cells, tbl) = goal
         [] op = "Sub" -> Max(v1, v2) - Min(v1, v2) = goal
         [] op = "Div" -> /\ Max(v1, v2) % Min(v1, v2) = 0
                          /\ Max(v1, v2) \div Min(v1, v2) = goal

constraint_satisfied(k, tbl, row, col) ==
    LET cage == k.cages[cell2cage(k, row, col)[1]]
    IN IF <<row, col>> = cage.lastcell THEN satisfied(cage, tbl) ELSE TRUE

(***************************************************************************)
(* The puzzles the model is run on: what KenKen::load builds from a file.  *)
(* 2x2 puzzles take every operator and every goal of 0..MaxGoal (a Sub     *)
(* goal stays within size + 1); 3x3 puzzles are the cagings of a latin     *)
(* square, each cage carrying the goal the square gives it.                *)
(***************************************************************************)
\* rows are permutations of 1..n, and so are the columns
LatinSquares(n) ==
    LET I == 0..n - 1
        Perm == {p \in [I -> 1..n] : \A i, j \in I : i # j => p[i] # p[j]}
        Rows == {r \in [I -> Perm] :
                   \A c \in I : \A i, j \in I : i # j => r[i][c] # r[j][c]}
    IN {[c \in I \X I |-> r[c[1]][c[2]]] : r \in Rows}

Latin == [n \in {2, 3} |-> LatinSquares(n)]

PairOps == {"Add", "Sub", "Mul", "Div"}
ManyOps == {"Add", "Mul"}

PairGoals(size) ==
    {og \in PairOps \X (0..MaxGoal) : og[1] = "Sub" => og[2] <= size + 1}

\* row 0 is one cage, the cells of row 1 are constants
Puzzles2a ==
    {[size |-> 2,
      cages |-> << Cage(<< <<1, 0>> >>, "Const", c1),
                   Cage(<< <<1, 1>> >>, "Const", c2),
                   Cage(<< <<0, 0>>, <<0, 1>> >>, og[1], og[2]) >>] :
        og \in PairGoals(2), c1 \in 1..MaxGoal, c2 \in 1..MaxGoal}

\* the two columns are one cage each
Puzzles2b ==
    {[size |-> 2,
      cages |-> << Cage(<< <<0, 0>>, <<1, 0>> >>, og1[1], og1[2]),
                   Cage(<< <<0, 1>>, <<1, 1>> >>, og2[1], og2[2]) >>] :
        og1 \in PairGoals(2), og2 \in PairGoals(2)}

\* an L of three cells and a constant
Puzzles2c ==
    {[size |-> 2,
      cages |-> << Cage(<< <<1, 0>> >>, "Const", c1),
                   Cage(<< <<0, 0>>, <<0, 1>>, <<1, 1>> >>, og[1], og[2]) >>] :
        og \in ManyOps \X (0..MaxGoal), c1 \in 1..MaxGoal}

\* the goal a solved grid gives to a cage
GoalOf(op, cells, g) ==
    CASE op = "Const" -> g[cells[1]]
      [] op = "Add" -> SumOver(cells, g)
      [] op = "Mul" -> ProductOver(cells, g)
      [] op = "Sub" -> Max(g[cells[1]], g[cells[2]]) - Min(g[cells[1]], g[cells[2]])
      [] op = "Div" -> Max(g[cells[1]], g[cells[2]]) \div Min(g[cells[1]], g[cells[2]])

OpFits(op, cells, g) ==
    op = "Div" => Max(g[cells[1]], g[cells[2]]) % Min(g[cells[1]], g[cells[2]]) = 0

CageOf(op, cells, g) == Cage(cells, op, GoalOf(op, cells, g))

Shape3aA == << <<0, 0>>, <<0, 1>> >>
Shape3aB == << <<0, 2>>, <<1, 2>> >>
Shape3aC == << <<1, 0>>, <<1, 1>>, <<2, 0>> >>
Shape3aD == << <<2, 1>>, <<2, 2>> >>

Puzzles3a ==
    {[size |-> 3,
      cages |-> << CageOf(t[2], Shape3aA, t[1]), CageOf(t[3], Shape3aB, t[1]),
                   CageOf(t[4], Shape3aC, t[1]), CageOf(t[5], Shape3aD, t[1]) >>] :
        t \in {u \in Latin[3] \X PairOps \X PairOps \X ManyOps \X PairOps :
                 /\ OpFits(u[2], Shape3aA, u[1]) /\ OpFits(u[3], Shape3aB, u[1])
                 /\ OpFits(u[5], Shape3aD, u[1])}}

Shape3bA == << <<0, 0>> >>
Shape3bB == << <<0, 1>>, <<0, 2>> >>
Shape3bC == << <<1, 0>>, <<2, 0>> >>
Shape3bD == << <<1, 1>>, <<1, 2>>, <<2, 1>>, <<2, 2>> >>

Puzzles3b ==
    {[size |-> 3,
      cages |-> << CageOf("Const", Shape3bA, t[1]), CageOf(t[2], Shape3bB, t[1]),
                   CageOf(t[3], Shape3bC, t[1]), CageOf(t[4], Shape3bD, t[1]) >>] :
        t \in {u \in Latin[3] \X PairOps \X PairOps \X ManyOps :
                 OpFits(u[2], Shape3bB, u[1]) /\ OpFits(u[3], Shape3bC, u[1])}}

Puzzles2 == Puzzles2a \cup Puzzles2b \cup Puzzles2c
Puzzles3 == Puzzles3a \cup Puzzles3b

(***************************************************************************)
(* main.rs: KenKen::solve.                                                 *)
(***************************************************************************)
RECURSIVE Ascending(_)
Ascending(s) ==
    IF s = {} THEN <<>>
    ELSE LET m == CHOOSE b \in s : \A o \in s : b <= o
         IN <<m>> \o Ascending(s \ {m})

\* ((1 << size) - 1) << 1
full_mask(size) == 1..size

NoOutcome == [kind |-> "none", steps |-> 0, grid |-> <<>>]

\* a prologue that forgets the column mask
Frame_RowMaskOnly(row, col, rm, cm) ==
    [row |-> row, col |-> col,
     pval |-> rm[row],
     iter |-> Ascending(cellcands[<<row, col>>]),
     placed |-> 0,
     rmask0 |-> rm, cmask0 |-> cm]

\* the activation record of a call inner(.., row, col), after its prologue;
\* rmask0 and cmask0 record the masks the call was entered with
Frame(row, col, rm, cm) ==
    [row |-> row, col |-> col,
     pval |-> rm[row] \cap cm[col],
     iter |-> Ascending(cellcands[<<row, col>>]),
     placed |-> 0,
     rmask0 |-> rm, cmask0 |-> cm]

Top == stack[Len(stack)]
SetTop(f) == [stack EXCEPT ![Len(stack)] = f]

Init ==
    /\ \/ ken \in Puzzles2 /\ overflow_checks \in BOOLEAN
       \/ ken \in Puzzles3 /\ overflow_checks = TRUE
    /\ pc = "start"
    /\ cellcands = empty(ken).cell
    /\ cagecands = empty(ken).cage
    /\ work = [c \in Cells(ken) |-> 0]
    /\ res = <<>>
    /\ rmask = [i \in 0..ken.size - 1 |-> full_mask(ken.size)]
    /\ cmask = [i \in 0..ken.size - 1 |-> full_mask(ken.size)]
    /\ steps = 0
    /\ stack = <<>>
    /\ outcome = NoOutcome
    /\ calls = 0

Store == [cell |-> cellcands, cage |-> cagecands]

\* constraints::initial_constraints (main.rs:190); a panic ends the process
DetermineInitial ==
    /\ pc = "start"
    /\ LET r == determine_initial(ken, Store)
       IN IF r.ok
          THEN /\ cellcands' = r.st.cell
               /\ cagecands' = r.st.cage
               /\ pc' = "reduce"
               /\ UNCHANGED outcome
          ELSE /\ pc' = "done"
               /\ outcome' = [NoOutcome EXCEPT !.kind = "abort"]
               /\ UNCHANGED <<cellcands, cagecands>>
    /\ UNCHANGED <<ken, overflow_checks, calls, work, res, rmask, cmask, steps, stack>>

\* one turn of: while constraints::reduce_constraints(..) { }  (main.rs:191)
Reduce ==
    /\ pc = "reduce"
    /\ LET r == reduce(Store)
       IN /\ cellcands' = r.cell
          /\ cagecands' = r.cage
          /\ pc' = IF r.changed THEN "reduce" ELSE "fixpoint"
    /\ UNCHANGED <<ken, overflow_checks, calls, work, res, rmask, cmask, steps, stack, outcome>>

\* main.rs:193-198: the search state and the call inner(.., 0, 0)
StartSearch ==
    /\ pc = "fixpoint"
    /\ LET m == [i \in 0..ken.size - 1 |-> full_mask(ken.size)]
       IN /\ rmask' = m
          /\ cmask' = m
          /\ stack' = << Frame(0, 0, m, m) >>
    /\ work' = [c \in Cells(ken) |-> 0]
    /\ res' = <<>>
    /\ steps' = 1
    /\ pc' = "search"
    /\ UNCHANGED <<ken, overflow_checks, calls, cellcands, cagecands, outcome>>

Iterating == pc = "search" /\ stack # <<>> /\ Top.placed = 0 /\ Top.iter # <<>>

\* pval & (1 << v) == 0: continue
InnerSkip ==
    /\ Iterating
    /\ Head(Top.iter) \notin Top.pval
    /\ stack' = SetTop([Top EXCEPT !.iter = Tail(@)])
    /\ UNCHANGED <<ken, overflow_checks, calls, pc, cellcands, cagecands, work, res,
                   rmask, cmask, steps, outcome>>

\* the digit is written, the cage constraint fails
InnerReject ==
    /\ Iterating
    /\ LET v == Head(Top.iter)
           w == [work EXCEPT ![<<Top.row, Top.col>>] = v]
       IN /\ v \in Top.pval
          /\ ~constraint_satisfied(ken, w, Top.row, Top.col)
          /\ work' = w
    /\ stack' = SetTop([Top EXCEPT !.iter = Tail(@)])
    /\ UNCHANGED <<ken, overflow_checks, calls, pc, cellcands, cagecands, res,
                   rmask, cmask, steps, outcome>>

\* the digit is written, the masks are cleared, inner() is called on the next cell
InnerDescend ==
    /\ Iterating
    /\ LET v == Head(Top.iter)
           row == Top.row
           col == Top.col
           w == [work EXCEPT ![<<row, col>>] = v]
           rm == [rmask EXCEPT ![row] = @ \ {v}]
           cm == [cmask EXCEPT ![col] = @ \ {v}]
           here == [Top EXCEPT !.iter = Tail(@), !.placed = v]
       IN /\ v \in Top.pval
          /\ constraint_satisfied(ken, w, row, col)
          /\ col < ken.size - 1 \/ row < ken.size - 1
          /\ work' = w
          /\ rmask' = rm
          /\ cmask' = cm
          /\ stack' = Append(SetTop(here),
                             IF col < ken.size - 1 THEN Frame(row, col + 1, rm, cm)
                             ELSE Frame(row + 1, 0, rm, cm))
    /\ steps' = steps + 1
    /\ UNCHANGED <<ken, overflow_checks, calls, pc, cellcands, cagecands, res, outcome>>

\* the last cell: the grid is pushed to res, the masks are cleared and set again
InnerRecord ==
    /\ Iterating
    /\ LET v == Head(Top.iter)
           row == Top.row
           col == Top.col
           w == [work EXCEPT ![<<row, col>>] = v]
       IN /\ v \in Top.pval
          /\ constraint_satisfied(ken, w, row, col)
          /\ ~(col < ken.size - 1) /\ ~(row < ken.size - 1)
          /\ work' = w
          /\ res' = Append(res, w)
          /\ rmask' = [rmask EXCEPT ![row] = (@ \ {v}) \cup {v}]
          /\ cmask' = [cmask EXCEPT ![col] = (@ \ {v}) \cup {v}]
    /\ stack' = SetTop([Top EXCEPT !.iter = Tail(@)])
    /\ UNCHANGED <<ken, overflow_checks, calls, pc, cellcands, cagecands, steps, outcome>>

\* the loop is over: the cell is reset and the call returns
InnerReturn ==
    /\ pc = "search" /\ stack # <<>>
    /\ Top.placed = 0 /\ Top.iter = <<>>
    /\ work' = [work EXCEPT ![<<Top.row, Top.col>>] = 0]
    /\ stack' = SubSeq(stack, 1, Len(stack) - 1)
    /\ UNCHANGED <<ken, overflow_checks, calls, pc, cellcands, cagecands, res,
                   rmask, cmask, steps, outcome>>

\* an undo that restores the row mask only
InnerUndo_RowOnly ==
    /\ pc = "search" /\ stack # <<>>
    /\ Top.placed # 0
    /\ rmask' = [rmask EXCEPT ![Top.row] = @ \cup {Top.placed}]
    /\ stack' = SetTop([Top EXCEPT !.placed = 0])
    /\ UNCHANGED <<ken, overflow_checks, calls, pc, cellcands, cagecands, work, res,
                   cmask, steps, outcome>>

\* back in the caller: rmask[row] |= 1 << v; cmask[col] |= 1 << v
InnerUndo ==
    /\ pc = "search" /\ stack # <<>>
    /\ Top.placed # 0
    /\ rmask' = [rmask EXCEPT ![Top.row] = @ \cup {Top.placed}]
    /\ cmask' = [cmask EXCEPT ![Top.col] = @ \cup {Top.placed}]
    /\ stack' = SetTop([Top EXCEPT !.placed = 0])
    /\ UNCHANGED <<ken, overflow_checks, calls, pc, cellcands, cagecands, work, res,
                   steps, outcome>>

\* main.rs:199-203
SolveFinish ==
    /\ pc = "search" /\ stack = <<>>
    /\ pc' = "done"
    /\ IF Len(res) > 1
       THEN /\ outcome' = [NoOutcome EXCEPT !.kind = "multiple"]
            /\ UNCHANGED res
       ELSE IF res = <<>>
       THEN /\ outcome' = [NoOutcome EXCEPT !.kind = "nosolution"]
            /\ UNCHANGED res
       ELSE /\ outcome' = [kind |-> "ok", steps |-> steps, grid |-> res[Len(res)]]
            /\ res' = SubSeq(res, 1, Len(res) - 1)
    /\ UNCHANGED <<ken, overflow_checks, calls, cellcands, cagecands, work,
                   rmask, cmask, steps, stack>>

Next ==
    \/ DetermineInitial
    \/ Reduce
    \/ StartSearch
    \/ InnerSkip
    \/ InnerReject
    \/ InnerDescend
    \/ InnerRecord
    \/ InnerReturn
    \/ InnerUndo
    \/ SolveFinish

Spec == Init /\ [][Next]_vars

(***************************************************************************)
(* SpecStore: the constraint store under any sequence of exclude calls,    *)
(* interleaved with whole reduce passes.                                   *)
(***************************************************************************)
\* the 3x3 puzzles of one latin square
OneSquare == CHOOSE g \in Latin[3] : g[<<0, 0>>] = 1 /\ g[<<0, 1>>] = 2 /\ g[<<1, 0>>] = 2

InitStore ==
    /\ Init
    /\ ken.size = 3 =>
         \A n \in 1..Len(ken.cages) :
            /\ OpFits(ken.cages[n].operation.op, ken.cages[n].cells, OneSquare)
            /\ ken.cages[n].operation.goal =
                 GoalOf(ken.cages[n].operation.op, ken.cages[n].cells, OneSquare)

StorePhase == pc \in {"reduce", "fixpoint"}

ExcludeCall ==
    /\ StorePhase
    /\ calls < MaxCalls
    /\ \E row \in 0..ken.size - 1, col \in 0..ken.size - 1, el \in 0..ken.size + 1 :
         LET r == exclude(Store, row, col, el)
         IN /\ cellcands' = r.cell
            /\ cagecands' = r.cage
    /\ calls' = calls + 1
    /\ pc' = "reduce"
    /\ UNCHANGED <<ken, overflow_checks, work, res, rmask, cmask, steps, stack, outcome>>

NextStore ==
    \/ DetermineInitial
    \/ ExcludeCall
    \/ Reduce

SpecStore == InitStore /\ [][NextStore]_vars

(***************************************************************************)
(* What a solution is, stated without the solver: a grid of digits 1..N    *)
(* whose rows and columns are permutations and whose cages meet their      *)
(* goals.                                                                  *)
(***************************************************************************)
GoalMet(cage, g) ==
    LET goal == cage.operation.goal
        op == cage.operation.op
        a == g[cage.cells[1]]
        b == g[cage.cells[2]]
    IN CASE op = "Const" -> a = goal
         [] op = "Add" -> SumOver(cage.cells, g) = goal
         [] op = "Mul" -> ProductOver(cage.cells, g) = goal
         [] op = "Sub" -> a - b = goal \/ b - a = goal
         [] op = "Div" -> a = b * goal \/ b = a * goal

IsSolution(k, g) ==
    /\ g \in [Cells(k) -> 1..k.size]
    /\ \A a \in 0..k.size - 1 : \A b, c \in 0..k.size - 1 :
          b # c => g[<<a, b>>] # g[<<a, c>>] /\ g[<<b, a>>] # g[<<c, a>>]
    /\ \A n \in 1..Len(k.cages) : GoalMet(k.cages[n], g)

Solutions(k) == {g \in Latin[k.size] : IsSolution(k, g)}

Aborted == outcome.kind = "abort"
Returned == pc = "done" /\ ~Aborted

(***************************************************************************)
(* C1: for every puzzle, solve returns NoSolution iff the puzzle has no    *)
(* solution, Ok with the solution iff it has exactly one, and              *)
(* MultipleSolutions iff it has two or more.                               *)
(***************************************************************************)
C1_SolveReportsSolutionCount ==
    pc = "done" =>
        LET n == Cardinality(Solutions(ken))
        IN /\ (n = 0) <=> (outcome.kind = "nosolution")
           /\ (n = 1) <=> (outcome.kind = "ok")
           /\ (n = 1) => outcome.grid \in Solutions(ken)
           /\ (n >= 2) <=> (outcome.kind = "multiple")

\* the same report, for the runs in which solve returns
C1_ReportRightWhenReturned ==
    Returned =>
        LET n == Cardinality(Solutions(ken))
        IN /\ (n = 0) <=> (outcome.kind = "nosolution")
           /\ (n = 1) <=> (outcome.kind = "ok")
           /\ (n = 1) => outcome.grid \in Solutions(ken)
           /\ (n >= 2) <=> (outcome.kind = "multiple")

(***************************************************************************)
(* C2: every grid in the result collection, and the grid solve returns,    *)
(* is a complete valid solution: digits 1..N only, every row and column a  *)
(* permutation, every cage meeting its goal.                               *)
(***************************************************************************)
C2_RecordedGridsAreSolutions ==
    /\ \A i \in 1..Len(res) : IsSolution(ken, res[i])
    /\ outcome.kind = "ok" => IsSolution(ken, outcome.grid)

C2_Witness ==
    /\ ken.size = 3
    /\ outcome.kind = "ok"
    /\ \E n \in 1..Len(ken.cages) : ken.cages[n].operation.op = "Div"
    /\ \E n \in 1..Len(ken.cages) : ken.cages[n].operation.op = "Sub"

(***************************************************************************)
(* C3: a solve invocation never aborts: it ends in a grid, NoSolution or   *)
(* MultipleSolutions, whatever the non-negative goals of the cages.        *)
(***************************************************************************)
C3_SolveNeverAborts == ~Aborted

(***************************************************************************)
(* C4: for every cage, the set of sequences from_cage produces is the set  *)
(* of all tuples over 1..N of the cage's length that meet the goal and     *)
(* differ at every two positions whose cells share a row or a column.      *)
(***************************************************************************)
Decode(v) == [ix \in 0..v.len - 1 |-> get(v, ix)]

\* the grids of a cage alone: a digit of 1..N for each of its positions
BruteForce(k, cage) ==
    LET n == Len(cage.cells)
        AsGrid(t) == [c \in {cage.cells[i] : i \in 1..n} |->
                        t[(CHOOSE i \in 1..n : cage.cells[i] = c) - 1]]
    IN {t \in [0..n - 1 -> 1..k.size] :
          /\ GoalMet(cage, AsGrid(t))
          /\ \A i, j \in 0..n - 1 :
                (i < j /\ (cage.cells[i + 1][1] = cage.cells[j + 1][1]
                           \/ cage.cells[i + 1][2] = cage.cells[j + 1][2]))
                => t[i] # t[j]}

C4_GeneratorEqualsBruteForce ==
    pc # "start" =>
        \A n \in 1..Len(ken.cages) :
            LET g == from_cage(ken, ken.cages[n])
            IN g.ok => {Decode(g.v[i]) : i \in 1..Len(g.v)} = BruteForce(ken, ken.cages[n])

\* the store determine_initial leaves for the puzzle
InitialStore == determine_initial(ken, empty(ken)).st

Propagated == pc \in {"reduce", "fixpoint", "search"} \/ Returned
AtFixpoint == pc \in {"fixpoint", "search"} \/ Returned

(***************************************************************************)
(* C5: for a puzzle with a unique solution S, after determine_initial and  *)
(* after every reduce pass each cell's digit-set contains the digit S      *)
(* gives to the cell.                                                      *)
(***************************************************************************)
C5_PropagationKeepsSolution ==
    (Propagated /\ Cardinality(Solutions(ken)) = 1) =>
        LET S == CHOOSE g \in Solutions(ken) : TRUE
        IN \A c \in Cells(ken) : S[c] \in cellcands[c]

\* a uniquely solvable 3x3 puzzle whose propagation has pruned digit-sets
C5_Witness ==
    /\ pc = "fixpoint"
    /\ ken.size = 3
    /\ Cardinality(Solutions(ken)) = 1
    /\ cellcands # InitialStore.cell

(***************************************************************************)
(* C6: when reduce has returned false, for every cell whose digit-set is a *)
(* singleton {d} no other cell of its row and no other cell of its column  *)
(* has d in its digit-set.                                                 *)
(***************************************************************************)
C6_NakedSingleClosure ==
    AtFixpoint =>
        \A row \in 0..ken.size - 1, col \in 0..ken.size - 1 :
            Cardinality(cellcands[<<row, col>>]) = 1 =>
                \A d \in cellcands[<<row, col>>] : \A other \in 0..ken.size - 1 :
                    /\ other # col => d \notin cellcands[<<row, other>>]
                    /\ other # row => d \notin cellcands[<<other, col>>]

\* a fixpoint with a singleton cell whose digit propagation removed from a
\* cell of its column that keeps other digits
C6_Witness ==
    /\ pc = "fixpoint"
    /\ ken.size = 3
    /\ \E row \in 0..2, col \in 0..2, other \in 0..2 :
          /\ other # row
          /\ Cardinality(cellcands[<<row, col>>]) = 1
          /\ cellcands[<<row, col>>] \subseteq InitialStore.cell[<<other, col>>]
          /\ cellcands[<<other, col>>] # {}

(***************************************************************************)
(* C10: when an invocation of inner returns, the row and column masks are  *)
(* the ones it was entered with and the cell it assigned is 0 again; after *)
(* the top-level call returns all masks are full and the grid is all 0.    *)
(***************************************************************************)
\* the cells of the invocations that have not returned
OnStack == {<<stack[i].row, stack[i].col>> : i \in 1..Len(stack)}

C10_SearchUndo ==
    /\ (pc = "search" /\ stack # <<>> /\ Top.placed = 0 /\ Top.iter = <<>>) =>
          rmask = Top.rmask0 /\ cmask = Top.cmask0
    /\ pc = "search" => \A c \in Cells(ken) \ OnStack : work[c] = 0
    /\ (pc = "search" /\ stack = <<>>) \/ Returned =>
          /\ \A i \in 0..ken.size - 1 :
                rmask[i] = 1..ken.size /\ cmask[i] = 1..ken.size
          /\ \A c \in Cells(ken) : work[c] = 0

\* a 3x3 search that recorded a solution, rejected digits, and is about to
\* return from an invocation below the top-level one
C10_Witness ==
    /\ pc = "search"
    /\ ken.size = 3
    /\ Len(stack) >= 2
    /\ Top.placed = 0 /\ Top.iter = <<>>
    /\ res # <<>>
    /\ steps > 9

(***************************************************************************)
(* C7: exclude is idempotent: a second call with the same (row, col,       *)
(* digit) returns false and leaves the digit-sets and candidate lists of   *)
(* the first call; a call whose digit is absent from the cell returns      *)
(* false and changes nothing.                                              *)
(***************************************************************************)
C7_ExcludeIdempotent ==
    StorePhase =>
        \A row \in 0..ken.size - 1, col \in 0..ken.size - 1, el \in 0..ken.size + 1 :
            LET once == exclude(Store, row, col, el)
                twice == exclude(once, row, col, el)
            IN /\ ~twice.ret
               /\ twice.cell = once.cell
               /\ twice.cage = once.cage
               /\ el \notin cellcands[<<row, col>>] =>
                     ~once.ret /\ once.cell = cellcands /\ once.cage = cagecands

\* a 3x3 store, already excluded from, in which a call removes a digit and
\* shrinks the digit-set of another cell of the cage
C7_Witness ==
    /\ StorePhase
    /\ ken.size = 3
    /\ calls >= 1
    /\ \E row \in 0..2, col \in 0..2, el \in 1..3 :
          LET once == exclude(Store, row, col, el)
          IN /\ once.ret
             /\ \E c \in Cells(ken) : c # <<row, col>> /\ once.cell[c] # cellcands[c]

(***************************************************************************)
(* C8: after determine_initial and after any sequence of exclude calls,    *)
(* the digit-set of the cell at position p of a cage is exactly the set of *)
(* values at position p of the cage's surviving candidate sequences.       *)
(***************************************************************************)
C8_StoreConsistent ==
    StorePhase =>
        \A n \in 1..Len(ken.cages) : \A p \in 0..Len(ken.cages[n].cells) - 1 :
            cellcands[ken.cages[n].cells[p + 1]] =
                {get(cagecands[n][i], p) : i \in 1..Len(cagecands[n])}

\* a 3x3 store after exclude calls in which a cell that no call named has
\* lost a digit and a cage keeps candidates
C8_Witness ==
    /\ StorePhase
    /\ ken.size = 3
    /\ calls >= 1
    /\ Cardinality({c \in Cells(ken) : cellcands[c] # InitialStore.cell[c]}) >= 2
    /\ \E n \in 1..Len(ken.cages) :
          /\ Len(cagecands[n]) >= 1
          /\ Len(cagecands[n]) < Len(InitialStore.cage[n])

(***************************************************************************)
(* SpecOrder: the scans of reduce applied one cell at a time, the cells    *)
(* taken in any order, rows before columns or columns before rows.         *)
(***************************************************************************)
Unchanged(st) == [cell |-> st.cell, cage |-> st.cage, changed |-> FALSE]

ScanRowsFirst ==
    /\ pc = "reduce"
    /\ \E row \in 0..ken.size - 1, col \in 0..ken.size - 1 :
         LET r == scan_cell(Unchanged(Store), row, col)
         IN /\ r.changed
            /\ cellcands' = r.cell
            /\ cagecands' = r.cage
    /\ UNCHANGED <<ken, overflow_checks, calls, pc, work, res, rmask, cmask,
                   steps, stack, outcome>>

ScanColsFirst ==
    /\ pc = "reduce"
    /\ \E row \in 0..ken.size - 1, col \in 0..ken.size - 1 :
         LET r == scan_cell_cols_first(Unchanged(Store), row, col)
         IN /\ r.changed
            /\ cellcands' = r.cell
            /\ cagecands' = r.cage
    /\ UNCHANGED <<ken, overflow_checks, calls, pc, work, res, rmask, cmask,
                   steps, stack, outcome>>

NextOrder ==
    \/ DetermineInitial
    \/ ScanRowsFirst
    \/ ScanColsFirst

SpecOrder == Init /\ [][NextOrder]_vars

\* no scan of any cell, in either order, changes the store
OrderFixpoint ==
    /\ pc = "reduce"
    /\ \A row \in 0..ken.size - 1, col \in 0..ken.size - 1 :
          /\ ~scan_cell(Unchanged(Store), row, col).changed
          /\ ~scan_cell_cols_first(Unchanged(Store), row, col).changed

\* the store the loop of solve ends with
SolveFixpoint == reduce_loop(InitialStore)

(***************************************************************************)
(* C9 as claimed: for any puzzle, the fixpoint of the naked-single and     *)
(* naked-pair exclusions is the same digit-sets and candidate lists in     *)
(* whatever order the cells are scanned and the row and column exclusions  *)
(* are made.                                                               *)
(***************************************************************************)
C9_OrderIndependentAnyPuzzle ==
    OrderFixpoint =>
        cellcands = SolveFixpoint.cell /\ cagecands = SolveFixpoint.cage

(***************************************************************************)
(* C9 amended: for any puzzle that has at least one solution, the fixpoint *)
(* of the naked-single and naked-pair exclusions is the same digit-sets    *)
(* and candidate lists in whatever order the cells are scanned and the row *)
(* and column exclusions are made.                                         *)
(***************************************************************************)
C9_OrderIndependentSolvable ==
    (OrderFixpoint /\ Solutions(ken) # {}) =>
        cellcands = SolveFixpoint.cell /\ cagecands = SolveFixpoint.cage

\* a solvable 3x3 puzzle at a fixpoint that scans have pruned and left with
\* a cell of several digits
C9_Witness ==
    /\ OrderFixpoint
    /\ ken.size = 3
    /\ Solutions(ken) # {}
    /\ cellcands # InitialStore.cell
    /\ \E c \in Cells(ken) : Cardinality(cellcands[c]) >= 2

(***************************************************************************)
(* SpecPropagate: determine_initial and the loop  while reduce() { }  of   *)
(* solve.  The loop is sequential code of one thread: a turn that can be   *)
(* taken is taken, which is weak fairness of Reduce.                       *)
(***************************************************************************)
NextPropagate ==
    \/ DetermineInitial
    \/ Reduce

SpecPropagate == Init /\ [][NextPropagate]_vars /\ WF_vars(Reduce)

\* the number of digits in all the cell digit-sets together
RECURSIVE DigitsIn(_, _)
DigitsIn(cell, S) ==
    IF S = {} THEN 0
    ELSE LET c == CHOOSE p \in S : TRUE
         IN Cardinality(cell[c]) + DigitsIn(cell, S \ {c})

\* calling reduce on st while it returns true meets a call that returns
\* false after at most n calls that returned true
RECURSIVE EndsWithin(_, _)
EndsWithin(st, n) ==
    LET r == reduce(st)
    IN IF ~r.changed THEN TRUE
       ELSE n > 0 /\ EndsWithin(r, n - 1)

(***************************************************************************)
(* C11: the propagation loop terminates: from the state after              *)
(* determine_initial, calling reduce while it returns true reaches a call  *)
(* that returns false, after no more calls than there are digits in the    *)
(* cell digit-sets; every call that returns true has removed a digit from  *)
(* some cell's digit-set, no call adds a digit to any, and a call that     *)
(* returns false leaves the store as it was.                               *)
(***************************************************************************)
C11_PropagationTerminates ==
    /\ [](pc = "reduce" => EndsWithin(Store, DigitsIn(cellcands, Cells(ken))))
    /\ [][pc = "reduce" =>
            /\ \A c \in Cells(ken) : cellcands'[c] \subseteq cellcands[c]
            /\ pc' = "reduce" => \E c \in Cells(ken) : cellcands'[c] # cellcands[c]
            /\ pc' = "fixpoint" => cellcands' = cellcands /\ cagecands' = cagecands
         ]_vars

\* a 3x3 puzzle whose loop has ended after at least two calls that
\* returned true
C11_Witness ==
    /\ pc = "fixpoint"
    /\ ken.size = 3
    /\ reduce(InitialStore).changed
    /\ reduce(reduce(InitialStore)).changed

\* a is b with some of its elements left out
RECURSIVE IsSubList(_, _)
IsSubList(a, b) ==
    IF Len(a) = 0 THEN TRUE
    ELSE IF Len(b) = 0 THEN FALSE
    ELSE IF Head(a) = Head(b) THEN IsSubList(Tail(a), Tail(b))
    ELSE IsSubList(a, Tail(b))

\* the store after has, cell by cell and cage by cage, only what before has
OnlyRemoves(before, after) ==
    /\ \A c \in Cells(ken) : after.cell[c] \subseteq before.cell[c]
    /\ Len(after.cage) = Len(before.cage)
    /\ \A n \in 1..Len(before.cage) : IsSubList(after.cage[n], before.cage[n])

(***************************************************************************)
(* C12: monotonic shrinking: after determine_initial, every exclude call   *)
(* and every reduce call only removes: each cage's candidate list after    *)
(* the call is a sub-list of the list before it, and every cell's          *)
(* digit-set after the call is a subset of its digit-set before it, the    *)
(* recomputed sets of the sibling cells included.                          *)
(***************************************************************************)
C12_MonotonicShrinking ==
    StorePhase =>
        /\ \A row, col \in 0..ken.size - 1 : \A el \in 0..ken.size + 1 :
              OnlyRemoves(Store, exclude(Store, row, col, el))
        /\ OnlyRemoves(Store, reduce(Store))

\* a 3x3 store that exclude calls have changed, in which one more call
\* takes a digit other than its own from a sibling cell of the cage
C12_Witness ==
    /\ StorePhase
    /\ ken.size = 3
    /\ calls >= 1
    /\ \E row, col \in 0..ken.size - 1 : \E el \in 1..ken.size :
          LET r == exclude(Store, row, col, el)
          IN /\ r.ret
             /\ \E p \in Cells(ken) :
                   /\ p # <<row, col>>
                   /\ r.cell[p] # cellcands[p]
                   /\ el \notin cellcands[p]

(***************************************************************************)
(* C13: digit range invariant: after determine_initial and after any       *)
(* sequence of exclude and reduce calls, every candidate sequence of a     *)
(* cage has as many entries as the cage has cells, each entry in 1..N,     *)
(* and every cell's digit-set is a subset of 1..N.                         *)
(***************************************************************************)
C13_DigitRange ==
    StorePhase =>
        /\ \A n \in 1..Len(cagecands) : \A i \in 1..Len(cagecands[n]) :
              /\ cagecands[n][i].len = Len(ken.cages[n].cells)
              /\ \A ix \in 0..cagecands[n][i].len - 1 :
                    get(cagecands[n][i], ix) \in 1..ken.size
        /\ \A c \in Cells(ken) : cellcands[c] \subseteq 1..ken.size

====
